---- MODULE Spec2Model ----
(***************************************************************************)
(* Model of eclipse_plugin_builders/__main__.py: the build-classpath,      *)
(* package and deploy commands, the target-platform scan and source/binary *)
(* reconciliation, and the Bundle-ClassPath manifest patcher.              *)
(*                                                                         *)
(* Paths, file names and manifest lines are TLA+ strings; Python's str     *)
(* operations (in, startswith, replace, rstrip, splitlines, comparison by  *)
(* code point) are operators computed character by character.              *)
(***************************************************************************)
EXTENDS Naturals, Sequences, FiniteSets, TLC

VARIABLES
    tree,               \* target platform: path -> "file" | "dir"
    pom,                \* pom.xml of the project: field -> text, or absent
    mvnOut,             \* what `mvn dependency:build-classpath` writes
    pc,                 \* position inside build_classpath
    status,             \* outcome of the last command
    classpaths,         \* build_classpath: local `classpaths`
    libs,               \* _collect_target_platform_plugins: local `libs`
    iter,               \* elements the running for-loop has not visited yet
    target_classpaths,  \* _collect_target_platform_plugins: local list
    classpathFile,      \* the project's .classpath file
    manifest,           \* META-INF/MANIFEST.MF
    libDir,             \* the project's lib/ directory
    targetJar,          \* target/<jar name>
    deployedJar,        \* <target platform>/dropins/<jar name>
    lines,              \* manifest patcher: input lines
    names,              \* manifest patcher: third-party library paths
    patched             \* manifest patcher: text written back

envVars == <<tree, pom, mvnOut>>
cpVars  == <<pc, classpaths, libs, iter, target_classpaths>>
outVars == <<classpathFile, manifest, libDir, targetJar, deployedJar>>
mfVars  == <<lines, names, patched>>
vars    == <<tree, pom, mvnOut, pc, status, classpaths, libs, iter,
             target_classpaths, classpathFile, manifest, libDir, targetJar,
             deployedJar, lines, names, patched>>

---------------------------------------------------------------------------
(* Bounds *)

MaxFiles == 4       \* files present in the target platform
MaxLines == 3       \* lines of the manifest handed to the patcher
MaxNames == 2       \* third-party libraries handed to the patcher

---------------------------------------------------------------------------
(* Python str operations *)

Min(S) == CHOOSE x \in S : \A y \in S : x <= y

\* the printable ASCII characters 32..95 and 97..126, in code order
AsciiLow == " !\"#$%&'()*+,-./0123456789:;<=>?@ABCDEFGHIJKLMNOPQRSTUVWXYZ[\\]^_"

AsciiHigh == "abcdefghijklmnopqrstuvwxyz{|}~"

\* ord(c) for a printable ASCII character c
Ord(c) ==
    IF \E i \in 1..Len(AsciiHigh) : SubSeq(AsciiHigh, i, i) = c
    THEN 96 + CHOOSE i \in 1..Len(AsciiHigh) : SubSeq(AsciiHigh, i, i) = c
    ELSE 31 + CHOOSE i \in 1..Len(AsciiLow) : SubSeq(AsciiLow, i, i) = c

Char(s, i) == SubSeq(s, i, i)

\* a < b on str: the first differing character decides, else the length
StrLess(a, b) ==
    LET n == IF Len(a) < Len(b) THEN Len(a) ELSE Len(b)
        d == {i \in 1..n : Char(a, i) # Char(b, i)}
    IN  IF d = {} THEN Len(a) < Len(b)
        ELSE Ord(Char(a, Min(d))) < Ord(Char(b, Min(d)))

\* p in s
Contains(s, p) ==
    \E i \in 1..(Len(s) + 1) :
        i + Len(p) - 1 <= Len(s) /\ SubSeq(s, i, i + Len(p) - 1) = p

StartsWith(s, p) == Len(p) <= Len(s) /\ SubSeq(s, 1, Len(p)) = p

EndsWith(s, p) ==
    Len(p) <= Len(s) /\ SubSeq(s, Len(s) - Len(p) + 1, Len(s)) = p

\* s.replace(old, new): every non-overlapping occurrence, leftmost first
RECURSIVE Replace(_, _, _)
Replace(s, old, new) ==
    IF Len(s) < Len(old) THEN s
    ELSE IF StartsWith(s, old)
         THEN new \o Replace(SubSeq(s, Len(old) + 1, Len(s)), old, new)
         ELSE Char(s, 1) \o Replace(SubSeq(s, 2, Len(s)), old, new)

\* s.rstrip() for the whitespace the model's lines use
RECURSIVE RStrip(_)
RStrip(s) ==
    IF Len(s) > 0 /\ Char(s, Len(s)) \in {" ", "\t"}
    THEN RStrip(SubSeq(s, 1, Len(s) - 1))
    ELSE s

\* s.splitlines() for "\n" line ends: no empty last line
RECURSIVE SplitLines(_)
SplitLines(s) ==
    IF s = "" THEN <<>>
    ELSE LET nl == {i \in 1..Len(s) : Char(s, i) = "\n"}
         IN  IF nl = {} THEN <<s>>
             ELSE <<SubSeq(s, 1, Min(nl) - 1)>>
                  \o SplitLines(SubSeq(s, Min(nl) + 1, Len(s)))

---------------------------------------------------------------------------
(* pathlib *)

\* index of the last "/" of p, 0 when there is none
LastSlash(p) ==
    LET sl == {i \in 1..Len(p) : Char(p, i) = "/"}
    IN  IF sl = {} THEN 0 ELSE CHOOSE i \in sl : \A j \in sl : j <= i

PathName(p) == SubSeq(p, LastSlash(p) + 1, Len(p))

PathParent(p) == SubSeq(p, 1, LastSlash(p) - 1)

PathJoin(parent, name) == parent \o "/" \o name

\* Path.is_file() inside the target platform
IsFile(p) == p \in DOMAIN tree /\ tree[p] = "file"

---------------------------------------------------------------------------
(* Module constants and classpath entries *)

PATH_BLACKLIST ==
    << ".pde.", "/jre/", "/org.eclipse.equinox.p2.repository/", "ant",
       "artifacts.jar", "content.jar", "ease", "egit", "jdt.debug", "jgit",
       "pydev" >>

\* the target_platform_path argument of build-classpath
target_path == "/t"

\* E.classpathentry(...): an element is the record of its attributes
SrcEntry == [kind |-> "src", path |-> "src", including |-> "**/*.java"]

OutputEntry == [kind |-> "output", path |-> "target/classes"]

ConEntry ==
    [kind |-> "con",
     path |-> "org.eclipse.jdt.launching.JRE_CONTAINER/"
              \o "org.eclipse.jdt.internal.debug.ui.launcher.StandardVMType/"
              \o "JavaSE-17"]

LibEntry(p) == [kind |-> "lib", path |-> p]

LibSourceEntry(p, s) == [kind |-> "lib", path |-> p, sourcepath |-> s]

HasSourcepath(e) == "sourcepath" \in DOMAIN e

---------------------------------------------------------------------------
(* compute_jar_name *)

PomField(f) == IF f \in DOMAIN pom THEN pom[f] ELSE "unknown"

compute_jar_name ==
    PomField("groupId") \o "." \o PomField("artifactId") \o "_"
        \o PomField("version") \o ".jar"

---------------------------------------------------------------------------
(* _collect_target_platform_plugins *)

\* the name matches *.source_*.jar
MatchesSourceJar(name) ==
    /\ EndsWith(name, ".jar")
    /\ \E i \in 1..Len(name) :
          /\ i + 8 <= Len(name) - 3
          /\ SubSeq(name, i, i + 7) = ".source_"

\* p lies somewhere below directory d
Under(p, d) == StartsWith(p, d \o "/")

\* target_path.glob("**/*.source_*.jar")
GlobSources ==
    {p \in DOMAIN tree :
        Under(p, target_path) /\ MatchesSourceJar(PathName(p))}

\* target_path.glob(sub + "/**/*.jar")
GlobJars(sub) ==
    {p \in DOMAIN tree :
        Under(p, PathJoin(target_path, sub)) /\ EndsWith(PathName(p), ".jar")}

\* the scan with the self-exclusion filter of line 120 left out
ScanLibsNoSelfFilter ==
    (GlobJars("dropins") \cup GlobJars("features") \cup GlobJars("jre")
        \cup GlobJars("plugins")) \ GlobSources

\* `libs` after the self-exclusion filter
ScanLibs ==
    {p \in (GlobJars("dropins") \cup GlobJars("features") \cup GlobJars("jre")
              \cup GlobJars("plugins")) \ GlobSources :
        PathName(p) # compute_jar_name}

\* the pattern loop without its `break`: the last pattern decides
SkipLastPatternOnly(p) ==
    Contains(p, PATH_BLACKLIST[Len(PATH_BLACKLIST)])

\* the inner `for pattern in PATH_BLACKLIST` loop: the value of `skip`
Skip(p) ==
    \E i \in 1..Len(PATH_BLACKLIST) : Contains(p, PATH_BLACKLIST[i])

\* parent / base.replace(".source_", "_")
Sibling(src) ==
    PathJoin(PathParent(src), Replace(PathName(src), ".source_", "_"))

\* list.sort(key=path): stable, ascending by code point
InsertByPath(sorted, e) ==
    LET k == Cardinality({i \in 1..Len(sorted) :
                             ~StrLess(e.path, sorted[i].path)})
    IN  SubSeq(sorted, 1, k) \o <<e>> \o SubSeq(sorted, k + 1, Len(sorted))

RECURSIVE SortByPath(_)
SortByPath(seq) ==
    IF seq = <<>> THEN <<>>
    ELSE InsertByPath(SortByPath(SubSeq(seq, 1, Len(seq) - 1)), seq[Len(seq)])

\* one pass of `for src in srcs` without libs.remove(lib)
SourceIterationKeepLib(src) ==
    IF Skip(src) THEN <<libs, target_classpaths>>
    ELSE LET lib == Sibling(src)
         IN  << libs,
                IF IsFile(lib) /\ IsFile(src)
                THEN Append(target_classpaths, LibSourceEntry(lib, src))
                ELSE target_classpaths >>

\* one pass of `for src in srcs`: the new <<libs, target_classpaths>>
SourceIteration(src) ==
    IF Skip(src) THEN <<libs, target_classpaths>>
    ELSE LET lib == Sibling(src)
         IN  << libs \ {lib},
                IF IsFile(lib) /\ IsFile(src)
                THEN Append(target_classpaths, LibSourceEntry(lib, src))
                ELSE target_classpaths >>

\* one pass of `for lib in libs`: the new target_classpaths
LibIteration(lib) ==
    IF Skip(lib) THEN target_classpaths
    ELSE IF IsFile(lib) THEN Append(target_classpaths, LibEntry(lib))
         ELSE target_classpaths

---------------------------------------------------------------------------
(* build_classpath *)

\* list.sort() on str
InsertString(sorted, x) ==
    LET k == Cardinality({i \in 1..Len(sorted) : ~StrLess(x, sorted[i])})
    IN  SubSeq(sorted, 1, k) \o <<x>> \o SubSeq(sorted, k + 1, Len(sorted))

RECURSIVE SortStrings(_)
SortStrings(seq) ==
    IF seq = <<>> THEN <<>>
    ELSE InsertString(SortStrings(SubSeq(seq, 1, Len(seq) - 1)), seq[Len(seq)])

\* tmp.read().replace(":", "\n").splitlines(), as read
Classpath3rdPartyUnsorted == SplitLines(Replace(mvnOut, ":", "\n"))

\* classpath_3rdparty after sort()
Classpath3rdParty == SortStrings(SplitLines(Replace(mvnOut, ":", "\n")))

FixedEntries == <<SrcEntry, OutputEntry, ConEntry>>

NoFile == [exists |-> FALSE, entries |-> <<>>]

\* no jar file at the path
NoJar == [manifest |-> "", lib |-> {"<no file>"}]

\* a failure before anything is written: the target platform directory is
\* missing, no ancestor holds .project and pom.xml, or mvn exits non-zero
BuildClasspathFail ==
    /\ pc = "idle"
    /\ status' = "failed"
    /\ UNCHANGED <<envVars, cpVars, outVars, mfVars>>

\* up to the scan of _collect_target_platform_plugins
BuildClasspathBegin ==
    /\ pc = "idle"
    /\ classpaths' = FixedEntries
            \o [i \in 1..Len(Classpath3rdParty) |->
                    LibEntry(Classpath3rdParty[i])]
    /\ libs' = ScanLibs
    /\ iter' = GlobSources
    /\ target_classpaths' = <<>>
    /\ pc' = "srcs"
    /\ status' = "running"
    /\ UNCHANGED <<envVars, outVars, mfVars>>

\* `for src in srcs`, srcs in the order list(set) happens to give
SourceStep ==
    /\ pc = "srcs"
    /\ \E src \in iter :
          /\ iter' = iter \ {src}
          /\ libs' = SourceIteration(src)[1]
          /\ target_classpaths' = SourceIteration(src)[2]
    /\ UNCHANGED <<envVars, pc, status, classpaths, outVars, mfVars>>

SourcesDone ==
    /\ pc = "srcs"
    /\ iter = {}
    /\ pc' = "libs"
    /\ iter' = libs
    /\ UNCHANGED <<envVars, status, classpaths, libs, target_classpaths,
                   outVars, mfVars>>

\* `for lib in libs`
LibStep ==
    /\ pc = "libs"
    /\ \E lib \in iter :
          /\ iter' = iter \ {lib}
          /\ target_classpaths' = LibIteration(lib)
    /\ UNCHANGED <<envVars, pc, status, classpaths, libs, outVars, mfVars>>

\* the sort that ends the collection, and the write of .classpath
BuildClasspathFinish ==
    /\ pc = "libs"
    /\ iter = {}
    /\ target_classpaths' = SortByPath(target_classpaths)
    /\ classpathFile' =
            [exists |-> TRUE,
             entries |-> classpaths \o SortByPath(target_classpaths)]
    /\ pc' = "idle"
    /\ status' = "ok"
    /\ UNCHANGED <<envVars, classpaths, libs, iter, manifest, libDir,
                   targetJar, deployedJar, mfVars>>

---------------------------------------------------------------------------
(* _third_party_lib_paths, _get_bundle_classpath, _update_bundle_classpath *)

\* the lib entries of .classpath outside /opt/capella_6.0.0, sorted
ThirdPartyLibPaths ==
    LET e == classpathFile.entries
        hit == {i \in DOMAIN e :
                   /\ e[i].kind = "lib"
                   /\ ~StartsWith(e[i].path, "/opt/capella_6.0.0")}
        RECURSIVE Pick(_)
        Pick(i) ==
            IF i > Len(e) THEN <<>>
            ELSE (IF i \in hit THEN <<e[i].path>> ELSE <<>>) \o Pick(i + 1)
    IN  SortStrings(Pick(1))

\* sep.join(seq)
RECURSIVE Join(_, _)
Join(seq, sep) ==
    IF seq = <<>> THEN ""
    ELSE IF Len(seq) = 1 THEN seq[1]
         ELSE seq[1] \o sep \o Join(Tail(seq), sep)

\* sorted([p.name for p in ...])
SortedNames(paths) ==
    SortStrings([i \in 1..Len(paths) |-> PathName(paths[i])])

_get_bundle_classpath(third_party_lib_paths) ==
    LET lib_paths == SortedNames(third_party_lib_paths)
        value ==
            IF third_party_lib_paths # <<>>
            THEN ".,\n" \o Join([i \in 1..Len(lib_paths) |->
                                    " lib/" \o lib_paths[i]], ",\n")
            ELSE "."
    IN  "Bundle-ClassPath: " \o value

\* the `for line in lines` loop from line i on:
\* <<manifest, found_bundle_classpath>> when it ends
RECURSIVE PatchLoop(_, _, _, _, _, _)
PatchLoop(ls, bundle_classpath, i, text, found, inside) ==
    IF i > Len(ls) THEN <<text, found>>
    ELSE IF StartsWith(ls[i], "Bundle-ClassPath:")
         THEN PatchLoop(ls, bundle_classpath, i + 1,
                        text \o bundle_classpath \o "\n", TRUE, TRUE)
         ELSE IF inside /\ StartsWith(ls[i], " ")
              THEN PatchLoop(ls, bundle_classpath, i + 1, text, found, TRUE)
              ELSE PatchLoop(ls, bundle_classpath, i + 1,
                             text \o RStrip(ls[i]) \o "\n", found, FALSE)

\* the text _update_bundle_classpath writes for the text it read
_update_bundle_classpath(text, third_party_lib_paths) ==
    LET bundle_classpath == _get_bundle_classpath(third_party_lib_paths)
        r == PatchLoop(SplitLines(text), bundle_classpath, 1, "", FALSE, FALSE)
    IN  IF bundle_classpath # "" /\ ~r[2]
        THEN (IF EndsWith(r[1], "\n") THEN r[1] ELSE r[1] \o "\n")
                 \o bundle_classpath \o "\n"
        ELSE r[1]

\* _update_bundle_classpath on its own, for the paths handed to it
UpdateBundleClasspath ==
    /\ pc = "idle"
    /\ manifest.exists
    /\ lines' = SplitLines(manifest.text)
    /\ manifest' =
          [exists |-> TRUE,
           text |-> _update_bundle_classpath(manifest.text, names)]
    /\ patched' = TRUE
    /\ UNCHANGED <<envVars, cpVars, status, classpathFile, libDir, targetJar,
                   deployedJar, names>>

---------------------------------------------------------------------------
(* package *)

NoManifest == [exists |-> FALSE, text |-> ""]

LibNames(paths) == {PathName(paths[i]) : i \in 1..Len(paths)}

\* .classpath is missing: _third_party_lib_paths exits after lib/ was
\* removed and made anew
PackageFailNoClasspath ==
    /\ pc = "idle"
    /\ ~classpathFile.exists
    /\ libDir' = {}
    /\ status' = "failed"
    /\ UNCHANGED <<envVars, cpVars, classpathFile, manifest, targetJar,
                   deployedJar, mfVars>>

\* shutil.copy raises on the k-th library, which is not on disk
PackageFailCopy ==
    /\ pc = "idle"
    /\ classpathFile.exists
    /\ \E k \in 1..Len(ThirdPartyLibPaths) :
          libDir' = LibNames(SubSeq(ThirdPartyLibPaths, 1, k - 1))
    /\ status' = "failed"
    /\ UNCHANGED <<envVars, cpVars, classpathFile, manifest, targetJar,
                   deployedJar, mfVars>>

\* MANIFEST.MF is missing: read_text raises after lib/ was filled
PackageFailNoManifest ==
    /\ pc = "idle"
    /\ classpathFile.exists
    /\ ~manifest.exists
    /\ libDir' = LibNames(ThirdPartyLibPaths)
    /\ status' = "failed"
    /\ UNCHANGED <<envVars, cpVars, classpathFile, manifest, targetJar,
                   deployedJar, mfVars>>

\* the manifest is patched and written; then plugin.xml is missing, the
\* output directory is missing or empty, or pom.xml is missing
PackageFailAfterManifest ==
    /\ pc = "idle"
    /\ classpathFile.exists
    /\ manifest.exists
    /\ libDir' = LibNames(ThirdPartyLibPaths)
    /\ names' = ThirdPartyLibPaths
    /\ lines' = SplitLines(manifest.text)
    /\ manifest' =
          [exists |-> TRUE,
           text |-> _update_bundle_classpath(manifest.text, ThirdPartyLibPaths)]
    /\ patched' = TRUE
    /\ status' = "failed"
    /\ UNCHANGED <<envVars, cpVars, classpathFile, targetJar, deployedJar>>

\* up to subprocess.run(jar_cmd, check=True); jarOk: jar exits with 0
PackageRunJar(jarOk) ==
    /\ pc = "idle"
    /\ classpathFile.exists
    /\ manifest.exists
    /\ libDir' = LibNames(ThirdPartyLibPaths)
    /\ names' = ThirdPartyLibPaths
    /\ lines' = SplitLines(manifest.text)
    /\ manifest' =
          [exists |-> TRUE,
           text |-> _update_bundle_classpath(manifest.text, ThirdPartyLibPaths)]
    /\ patched' = TRUE
    /\ targetJar' =
          IF jarOk
          THEN [manifest |-> manifest'.text, lib |-> libDir']
          ELSE NoJar
    /\ status' = IF jarOk THEN "ok" ELSE "failed"
    /\ UNCHANGED <<envVars, cpVars, classpathFile, deployedJar>>

PackageFailJar == PackageRunJar(FALSE)

PackageOk == PackageRunJar(TRUE)

---------------------------------------------------------------------------
(* deploy *)

\* <target>/dropins is no directory, or _output_and_jar_path exits:
\* .classpath or pom.xml missing, output directory missing or empty
DeployFailEarly ==
    /\ pc = "idle"
    /\ status' = "failed"
    /\ UNCHANGED <<envVars, cpVars, outVars, mfVars>>

\* dest.unlink(missing_ok=True), then shutil.copy(jar_path, dest)
DeployCopy ==
    /\ pc = "idle"
    /\ classpathFile.exists
    /\ deployedJar' = targetJar
    /\ status' = IF targetJar = NoJar THEN "failed" ELSE "ok"
    /\ UNCHANGED <<envVars, cpVars, classpathFile, manifest, libDir,
                   targetJar, mfVars>>

---------------------------------------------------------------------------
(* Inputs *)

Universe ==
    { "/t/plugins/an.source_t.jar",
      "/t/plugins/an_t.jar",
      "/t/plugins/a_.source_1.jar",
      "/t/plugins/a.source_.source_1.jar",
      "/t/plugins/a__1.jar",
      "/t/dropins/g.a_1.jar",
      "/t/dropins/g.a.source_1.jar",
      "/t/plugins/ant_1.jar",
      "/t/plugins/x.pde.source_1.jar",
      "/t/plugins/x.pde_1.jar",
      "/t/x/c.source_1.jar",
      "/t/x/c_1.jar",
      "/t/jre/r.jar",
      "/t/features/g.a_1.jar" }

\* names that may also be directories
DirPaths == { "/t/plugins/an_t.jar" }

Trees ==
    UNION { {t \in [S -> {"file", "dir"}] :
                \A p \in S : t[p] = "dir" => p \in DirPaths} :
            S \in {S \in SUBSET Universe : Cardinality(S) <= MaxFiles} }

Poms ==
    { [groupId |-> "g", artifactId |-> "a", version |-> "1"],
      [groupId |-> "g", artifactId |-> "a"] }

MvnOuts == { "", "/m/b.jar:/m/a.jar" }

\* the project before any command has run
InitProject ==
    /\ manifest = NoManifest
    /\ libDir = {}
    /\ targetJar = NoJar
    /\ deployedJar = NoJar
    /\ lines = <<>>
    /\ names = <<>>
    /\ patched = FALSE

InitIdle ==
    /\ pc = "idle"
    /\ status = "none"
    /\ classpaths = <<>>
    /\ libs = {}
    /\ iter = {}
    /\ target_classpaths = <<>>

Init ==
    /\ tree \in Trees
    /\ pom \in Poms
    /\ mvnOut \in MvnOuts
    /\ InitIdle
    /\ classpathFile = NoFile
    /\ InitProject

Next ==
    \/ BuildClasspathFail
    \/ BuildClasspathBegin
    \/ SourceStep
    \/ SourcesDone
    \/ LibStep
    \/ BuildClasspathFinish

Spec == Init /\ [][Next]_vars

(* The manifest patcher on its own *)

ManifestLines ==
    { "Bundle-ClassPath: x", " y", "A: 1 ", "B: 2" }

SeqsUpTo(S, n) == UNION {[1..k -> S] : k \in 0..n}

\* the lines of a manifest, each ended by "\n"
ManifestText(ls) == Join(ls, "\n") \o (IF ls = <<>> THEN "" ELSE "\n")

LibPaths == { "/m/b.jar", "/n/a.jar" }

InitManifest ==
    /\ tree = <<>>
    /\ pom = [groupId |-> "g", artifactId |-> "a", version |-> "1"]
    /\ mvnOut = ""
    /\ InitIdle
    /\ classpathFile = NoFile
    /\ \E ls \in SeqsUpTo(ManifestLines, MaxLines) :
          manifest = [exists |-> TRUE, text |-> ManifestText(ls)]
    /\ names \in {SortStrings(ps) : ps \in SeqsUpTo(LibPaths, MaxNames)}
    /\ libDir = {}
    /\ targetJar = NoJar
    /\ deployedJar = NoJar
    /\ lines = <<>>
    /\ patched = FALSE

NextManifest == UpdateBundleClasspath

SpecManifest == InitManifest /\ [][NextManifest]_vars

(* The three commands on one project *)

CommandTrees ==
    {t \in Trees :
        DOMAIN t \subseteq {"/t/plugins/an.source_t.jar", "/t/plugins/an_t.jar"}}

InitCommands ==
    /\ tree \in CommandTrees
    /\ pom = [groupId |-> "g", artifactId |-> "a", version |-> "1"]
    /\ mvnOut \in MvnOuts
    /\ InitIdle
    /\ classpathFile = NoFile
    /\ manifest \in {NoManifest,
                      [exists |-> TRUE, text |-> ManifestText(<<"A: 1">>)],
                      [exists |-> TRUE,
                       text |-> ManifestText(<<"Bundle-ClassPath: x", " y">>)]}
    /\ libDir \in {{}, {"old.jar"}}
    /\ targetJar = NoJar
    /\ deployedJar = NoJar
    /\ lines = <<>>
    /\ names = <<>>
    /\ patched = FALSE

NextCommands ==
    \/ Next
    \/ PackageFailNoClasspath
    \/ PackageFailCopy
    \/ PackageFailNoManifest
    \/ PackageFailAfterManifest
    \/ PackageFailJar
    \/ PackageOk
    \/ DeployFailEarly
    \/ DeployCopy

SpecCommands == InitCommands /\ [][NextCommands]_vars

---------------------------------------------------------------------------
(* Properties of build_classpath and _collect_target_platform_plugins *)

\* a run of build_classpath has returned; target_classpaths is the list
\* _collect_target_platform_plugins returned
Collected == pc = "idle" /\ status = "ok"

InDenylist(p) ==
    \E i \in 1..Len(PATH_BLACKLIST) : Contains(p, PATH_BLACKLIST[i])

PairedAt(i, b, s) ==
    /\ target_classpaths[i].path = b
    /\ HasSourcepath(target_classpaths[i])
    /\ target_classpaths[i].sourcepath = s

\* the premise of C1 for source archive s
GoodPair(s) ==
    /\ Sibling(s) \in ScanLibs
    /\ IsFile(Sibling(s))
    /\ IsFile(s)
    /\ ~InDenylist(s)

\* C1: a source archive s whose sibling b is in the scanned binaries, with
\* both regular files and s not denylisted, yields exactly one entry with
\* path=b and sourcepath=s, and no entry with path=b without a sourcepath.
C1_PairEmittedOnce ==
    Collected =>
        \A s \in GlobSources :
            GoodPair(s) =>
                /\ Cardinality({i \in DOMAIN target_classpaths :
                                    PairedAt(i, Sibling(s), s)}) = 1
                /\ ~\E i \in DOMAIN target_classpaths :
                        /\ target_classpaths[i].path = Sibling(s)
                        /\ ~HasSourcepath(target_classpaths[i])

C1_Witness ==
    /\ Collected
    /\ \E s \in GlobSources :
          /\ GoodPair(s)
          /\ \E i \in DOMAIN target_classpaths : PairedAt(i, Sibling(s), s)

\* C2: no two entries of the result have the same path.
C2_PathsUnique ==
    Collected =>
        \A i, j \in DOMAIN target_classpaths :
            i # j => target_classpaths[i].path # target_classpaths[j].path

\* the entries of .classpath from position lo on
EntriesFrom(lo) ==
    SubSeq(classpathFile.entries, lo, Len(classpathFile.entries))

Ascending(seq) ==
    \A i, j \in DOMAIN seq : i < j => ~StrLess(seq[j].path, seq[i].path)

\* C3: .classpath holds the src, output and con entries, then one
\* source-less lib entry per external dependency string in ascending
\* order, then the reconciled entries in ascending order of path.
C3_EntryOrder ==
    Collected =>
        LET e == classpathFile.entries
            ext == Classpath3rdPartyUnsorted
            n == Len(ext)
        IN  /\ classpathFile.exists
            /\ Len(e) >= 3 + n
            /\ e[1] = [kind |-> "src", path |-> "src",
                       including |-> "**/*.java"]
            /\ e[2] = [kind |-> "output", path |-> "target/classes"]
            /\ e[3].kind = "con" /\ DOMAIN e[3] = {"kind", "path"}
            /\ \A i \in 4..(3 + n) :
                    e[i].kind = "lib" /\ ~HasSourcepath(e[i])
            /\ \A x \in {ext[k] : k \in 1..n} :
                    Cardinality({k \in 1..n : ext[k] = x})
                        = Cardinality({i \in 4..(3 + n) : e[i].path = x})
            /\ Ascending(SubSeq(e, 4, 3 + n))
            /\ EntriesFrom(4 + n) = target_classpaths
            /\ Ascending(EntriesFrom(4 + n))

C3_Witness ==
    /\ Collected
    /\ Len(Classpath3rdPartyUnsorted) >= 2
    /\ StrLess(Classpath3rdPartyUnsorted[2], Classpath3rdPartyUnsorted[1])
    /\ Len(target_classpaths) >= 2

\* C4: a second run over the same tree and the same external list writes
\* the same entry sequence, whatever order the sets are enumerated in.
C4_SameOutputEveryRun ==
    [][(pc = "libs" /\ pc' = "idle" /\ classpathFile.exists)
          => classpathFile' = classpathFile]_vars

\* C8: the binaries handed to reconciliation hold no path named like the
\* computed output artifact.
C8_SelfExcluded ==
    pc \in {"srcs", "libs"} =>
        \A p \in libs : PathName(p) # compute_jar_name

C8_Witness ==
    /\ pc = "srcs"
    /\ iter = GlobSources
    /\ libs # {}
    /\ \E p \in DOMAIN tree :
          /\ IsFile(p)
          /\ PathName(p) = compute_jar_name
          /\ Under(p, "/t/dropins") \/ Under(p, "/t/features")

\* C9: a source archive whose sibling is not in the scanned binaries
\* contributes no entry and leaves the working binary set unchanged.
C9_NoEntryWithoutScannedSibling ==
    [][\A s \in iter :
          (pc = "srcs" /\ iter' = iter \ {s} /\ Sibling(s) \notin ScanLibs)
              => (libs' = libs /\ target_classpaths' = target_classpaths)]_vars

\* C10: no path and no sourcepath of the result contains a PATH_BLACKLIST
\* substring.
C10_NoDenylistedEntry ==
    Collected =>
        \A i \in DOMAIN target_classpaths :
            /\ ~InDenylist(target_classpaths[i].path)
            /\ HasSourcepath(target_classpaths[i])
                  => ~InDenylist(target_classpaths[i].sourcepath)

C10_Witness ==
    /\ Collected
    /\ \E p \in DOMAIN tree : IsFile(p) /\ InDenylist(p)
    /\ \E i \in DOMAIN target_classpaths : HasSourcepath(target_classpaths[i])

---------------------------------------------------------------------------
(* Properties of _update_bundle_classpath *)

IsHeader(line) == StartsWith(line, "Bundle-ClassPath:")

Headers(ls) == {i \in 1..Len(ls) : IsHeader(ls[i])}

\* the last line of the run of lines starting with a space that follows h
RunEnd(ls, h) ==
    CHOOSE k \in h..Len(ls) :
        /\ \A j \in (h + 1)..k : StartsWith(ls[j], " ")
        /\ k < Len(ls) => ~StartsWith(ls[k + 1], " ")

\* lines a..b, each right-trimmed
Kept(ls, a, b) == [i \in 1..(b - a + 1) |-> RStrip(ls[a + i - 1])]

\* the new block for the names in one order
Block(ns) ==
    IF ns = <<>> THEN <<"Bundle-ClassPath: .">>
    ELSE <<"Bundle-ClassPath: .,">>
         \o [i \in 1..Len(ns) |->
                " lib/" \o ns[i] \o (IF i < Len(ns) THEN "," ELSE "")]

\* the new block, the names in any order
Blocks(paths) ==
    {Block([i \in 1..Len(paths) |-> PathName(paths[f[i]])]) :
        f \in {g \in [1..Len(paths) -> 1..Len(paths)] :
                  \A i, j \in 1..Len(paths) : g[i] = g[j] => i = j}}

\* what C5 says is written for the lines ls
PatchedLines(ls, paths) ==
    IF Headers(ls) = {}
    THEN {Kept(ls, 1, Len(ls)) \o b : b \in Blocks(paths)}
    ELSE LET h == Min(Headers(ls))
         IN  {Kept(ls, 1, h - 1) \o b
                  \o Kept(ls, RunEnd(ls, h) + 1, Len(ls)) : b \in Blocks(paths)}

\* C5: the first Bundle-ClassPath line and the lines starting with a space
\* that follow it are replaced by the new block and every other line is
\* kept, right-trimmed and in order; without such a line the block is
\* appended after the lines.
C5_PatchReplacesOrAppends ==
    patched => SplitLines(manifest.text) \in PatchedLines(lines, names)

\* C6: of several Bundle-ClassPath lines only the first is rewritten: the
\* later ones are in the output and the new block is there once.
C6_OnlyFirstHeaderRewritten ==
    (patched /\ Cardinality(Headers(lines)) > 1) =>
        LET out == SplitLines(manifest.text)
        IN  /\ Cardinality({i \in 1..Len(out) :
                               out[i] \in {"Bundle-ClassPath: .",
                                           "Bundle-ClassPath: .,"}}) = 1
            /\ \A h \in Headers(lines) \ {Min(Headers(lines))} :
                    \E i \in 1..Len(out) : out[i] = RStrip(lines[h])

---------------------------------------------------------------------------
(* Properties of the commands *)

\* C7: a command that fails leaves .classpath, MANIFEST.MF, lib/, the
\* target jar and the deployed jar as they were.
C7_FailureLeavesOutputs ==
    [][status' = "failed" => outVars' = outVars]_vars

====
